---- MODULE Spec2Model ----
(***************************************************************************)
(* A model of src/app.py: the credential cache (get_access_token), the     *)
(* inference client (call_vertex), the reference content cache             *)
(* (_fetch_blog, _bg_refresh, get_context), the fallback responder         *)
(* (local_fallback_reply) and the end-to-end answer with its output        *)
(* sanitizing (llm).                                                       *)
(*                                                                         *)
(* Texts.  A Python str is modelled as a run-length sequence: a sequence   *)
(* of runs [c |-> symbol, n |-> count], adjacent runs carrying different   *)
(* symbols and every count >= 1, so that two texts are equal exactly when  *)
(* their run sequences are equal.  A symbol is either one character (a     *)
(* member of DOMAIN Ord, Ord giving its code point) or a literal: a        *)
(* stretch of source text without line breaks, written as the TLA+ string  *)
(* of that stretch.  Literals occur only in FALLBACK and in the reply of   *)
(* local_fallback_reply, which the code never slices or measures; TLen     *)
(* counts a literal as one position.                                       *)
(***************************************************************************)
EXTENDS Integers, Sequences, FiniteSets, TLC

\* ------------------------------------------------------------------ texts

\* Code points of the characters the model draws texts from.
Ord ==
    [c \in {"*", "a", "b", "-", " ", "\n", "U+00E9", "U+1F600", "U+26A0",
             "U+FE0F", "U+1F4CC", "U+2705"} |->
        CASE c = "*" -> 42
          [] c = "a" -> 97
          [] c = "b" -> 98
          [] c = "-" -> 45
          [] c = " " -> 32
          [] c = "\n" -> 10
          [] c = "U+00E9" -> 233
          [] c = "U+1F600" -> 128512
          [] c = "U+26A0" -> 9888
          [] c = "U+FE0F" -> 65039
          [] c = "U+1F4CC" -> 128204
          [] c = "U+2705" -> 9989]

NL == "\n"

Run(c, n) == [c |-> c, n |-> n]

\* The text made of the one literal stretch s.
Lit(s) == <<Run(s, 1)>>

RECURSIVE Norm(_)
\* Canonical form of a run sequence: empty runs dropped, equal neighbours merged.
Norm(s) ==
    IF s = <<>> THEN <<>>
    ELSE LET h == Head(s)
             r == Norm(Tail(s))
         IN  IF h.n = 0 THEN r
             ELSE IF r # <<>> /\ Head(r).c = h.c
                  THEN <<Run(h.c, h.n + Head(r).n)>> \o Tail(r)
                  ELSE <<h>> \o r

\* a + b on str, for a and b in canonical form: the runs that meet are merged
\* when they carry the same symbol.
Cat(a, b) ==
    IF a = <<>> THEN b
    ELSE IF b = <<>> THEN a
         ELSE IF a[Len(a)].c = Head(b).c
              THEN SubSeq(a, 1, Len(a) - 1)
                     \o <<Run(Head(b).c, a[Len(a)].n + Head(b).n)>> \o Tail(b)
              ELSE a \o b

RECURSIVE CatAll(_)
CatAll(ts) == IF ts = <<>> THEN <<>> ELSE Cat(Head(ts), CatAll(Tail(ts)))

RECURSIVE TLen(_)
\* len(text)
TLen(s) == IF s = <<>> THEN 0 ELSE Head(s).n + TLen(Tail(s))

RECURSIVE Take(_, _)
\* text[:k]
Take(s, k) ==
    IF s = <<>> \/ k <= 0 THEN <<>>
    ELSE IF Head(s).n >= k THEN <<Run(Head(s).c, k)>>
         ELSE <<Head(s)>> \o Take(Tail(s), k - Head(s).n)

RECURSIVE Expand(_)
\* The text as a plain sequence of symbols, one per position.
Expand(s) ==
    IF s = <<>> THEN <<>>
    ELSE [i \in 1..Head(s).n |-> Head(s).c] \o Expand(Tail(s))

\* The run-length text of a plain sequence of symbols.
FromChars(cs) == Norm([i \in 1..Len(cs) |-> Run(cs[i], 1)])

\* str.isspace() for one character: ASCII white space and the Unicode spaces.
IsSpace(c) ==
    /\ c \in DOMAIN Ord
    /\ Ord[c] \in {9, 10, 11, 12, 13, 28, 29, 30, 31, 32, 133, 160}

RECURSIVE LStrip(_)
LStrip(cs) == IF cs # <<>> /\ IsSpace(Head(cs)) THEN LStrip(Tail(cs)) ELSE cs

RECURSIVE RStrip(_)
RStrip(cs) ==
    IF cs # <<>> /\ IsSpace(cs[Len(cs)]) THEN RStrip(SubSeq(cs, 1, Len(cs) - 1)) ELSE cs

\* str.strip() on a plain sequence
Strip(cs) == RStrip(LStrip(cs))

RECURSIVE LStripT(_)
LStripT(s) == IF s # <<>> /\ IsSpace(Head(s).c) THEN LStripT(Tail(s)) ELSE s

RECURSIVE RStripT(_)
RStripT(s) ==
    IF s # <<>> /\ IsSpace(s[Len(s)].c) THEN RStripT(SubSeq(s, 1, Len(s) - 1)) ELSE s

\* str.strip() on a text
StripT(s) == RStripT(LStripT(s))

RECURSIVE SplitFrom(_, _, _)
\* str.splitlines(), reading the runs of s from the left: cur is the line being
\* read and out the lines already closed.  A run of n line breaks closes the
\* current line and n - 1 empty ones; a last line is kept only if not empty.
SplitFrom(s, cur, out) ==
    IF s = <<>> THEN (IF cur = <<>> THEN out ELSE Append(out, cur))
    ELSE IF Head(s).c = NL
         THEN SplitFrom(Tail(s), <<>>,
                        Append(out, cur) \o [k \in 1..(Head(s).n - 1) |-> <<>>])
         ELSE SplitFrom(Tail(s), Append(cur, Head(s)), out)

SplitLines(s) == SplitFrom(s, <<>>, <<>>)

RECURSIVE Join(_, _)
\* sep.join(lines)
Join(sep, lines) ==
    IF lines = <<>> THEN <<>>
    ELSE IF Len(lines) = 1 THEN lines[1]
         ELSE Cat(lines[1], Cat(sep, Join(sep, Tail(lines))))

\* seq[:k] on a list
FirstN(seq, k) == SubSeq(seq, 1, IF Len(seq) < k THEN Len(seq) ELSE k)

\* ------------------------------------------------ reference content cache

FallbackLines ==
    << "[TAX] Rideshare tax forms are released at the end of January. 1099-K, 1099-NEC required.",
       "Don't write \"exempt\" on W-4, you'll lose your refund.",
       "[VISA] F-1 holders can travel to neighboring countries (Automatic Visa Revalidation).",
       "J-1 visa application: Get DS-2019, pay SEVIS, schedule consulate appointment.",
       "[PHONE] You can get a free line through the Lifeline program.",
       "Get a US number without SSN using Google Voice.",
       "[HEALTH] NJ Medicaid is free for low income. Free clinics available in NY.",
       "[BANK] Chase and BofA open accounts with passport. Start credit score with a secured card.",
       "[RIDESHARE] Uber/Lyft requires SSN + driver's license + car insurance. Expect 1099 form in January.",
       "[HOUSING] NJ Newark/Paterson 1BR $900-1200. Try Craigslist, Zillow, Facebook Marketplace.",
       "[WISE] International transfer limits $50k/year. Wise > Western Union.",
       "[LICENSE] NJ has 6 Points of ID system. Even undocumented can get a license.",
       "[FLIGHTS] International flights from NJ $400-700. Pay excess baggage 24 hours before flight for cheaper rate." >>

\* The triple-quoted literal: a line break, then every line followed by one.
FALLBACK ==
    Norm(<<Run(NL, 1)>> \o
         [i \in 1..(2 * Len(FallbackLines)) |->
            IF i % 2 = 1 THEN Run(FallbackLines[(i + 1) \div 2], 1) ELSE Run(NL, 1)])

\* "\n---\n"
Separator == <<Run(NL, 1), Run("-", 3), Run(NL, 1)>>

URLS ==
    << "https://abdyasam.blogspot.com/",
       "https://abdyasam.blogspot.com/search?max-results=20" >>

MinPostLen == 100
MaxPostLen == 800
MaxPosts == 15
MaxContentLen == 6000

RECURSIVE AddPosts(_, _)
\* for p in posts: text = p.get_text(...); if len(text) > 100: combined += ...
AddPosts(combined, posts) ==
    IF posts = <<>> THEN combined
    ELSE AddPosts(
            IF TLen(Head(posts)) > MinPostLen
            THEN Cat(combined, Cat(Take(Head(posts), MaxPostLen), Separator))
            ELSE combined,
            Tail(posts))

\* Mutant of FetchOne: a status that is no success ends the cycle like an
\* exception.
FetchOneStrict(combined, r) ==
    IF r.kind \in {"neterr", "parseerr", "notok"}
    THEN [raised |-> TRUE, combined |-> combined]
    ELSE [raised |-> FALSE,
          combined |-> AddPosts(combined, FirstN(r.posts, MaxPosts))]

\* The body of the loop over urls for one response r, as (outcome, combined):
\* requests.get or the parsing raised, r.ok was false, or the posts were added.
FetchOne(combined, r) ==
    IF r.kind \in {"neterr", "parseerr"} THEN [raised |-> TRUE, combined |-> combined]
    ELSE IF r.kind = "notok" THEN [raised |-> FALSE, combined |-> combined]
         ELSE [raised |-> FALSE,
               combined |-> AddPosts(combined, FirstN(r.posts, MaxPosts))]

\* Mutant of HandlerContent: the handler logs and leaves the cache alone.
HandlerContentKept(content) == content

\* What the handler of lines 141 to 143 leaves in the cache, content being
\* what the cache held.
HandlerContent(content) == FALLBACK

\* Mutant of StoredContent: the content is stored at its full length.
StoredContentWhole(combined) == combined

\* What line 139 stores.
StoredContent(combined) == Take(combined, MaxContentLen)

\* Mutant of ShouldStore: the cycle stores whatever it has gathered.
ShouldStoreAlways(combined) == TRUE

\* The guard of line 138.
ShouldStore(combined) == combined # <<>>

\* Mutant of ContextIsEmpty: get_context returns the content as it is.
ContextIsEmptyNever(content) == FALSE

\* get_context, line 153: the test on the content read there.
ContextIsEmpty(content) == content = <<>>

\* ------------------------------------------------------ fallback responder

DefaultQuestion == Lit("General question")

\* Mutant of KeptLine: every line of the context is kept.
KeptLineAll(line) == TRUE

\* The lines local_fallback_reply keeps of the context.
KeptLine(line) == StripT(line) # <<>> /\ StripT(line) # <<Run("-", 3)>>

ExcerptLines == 8

Sample(ctx) ==
    LET sample == Join(<<Run(NL, 1)>>, SelectSeq(SplitLines(ctx), KeptLine))
    IN  Join(<<Run(NL, 1)>>, FirstN(SplitLines(sample), ExcerptLines))

\* The text before the question: line 165 and the head of line 166.
ReplyHead ==
    CatAll(<< <<Run("U+26A0", 1), Run("U+FE0F", 1), Run(" ", 1)>>,
              Lit("Vertex AI configuration is missing"),
              Lit(", so showing a quick guide summary instead of an AI response."),
              <<Run(NL, 2)>>,
              <<Run("U+1F4CC", 1), Run(" ", 1)>>,
              Lit("Question:"), <<Run(" ", 1)>> >>)

\* The text between the question and the excerpt: lines 166 to 169.
ReplyMiddle ==
    CatAll(<< <<Run(NL, 1)>>,
              <<Run("U+2705", 1), Run(" ", 1)>>,
              Lit("Full AI answers will return once you add GOOGLE_CLOUD_PROJECT and VERTEX_LOCATION to Cloud Run env variables."),
              <<Run(NL, 1)>>,
              <<Run("U+2705", 1), Run(" ", 1)>>,
              Lit("Grant the Vertex AI User (roles/aiplatform.user) role to the service account."),
              <<Run(NL, 2)>>,
              Lit("Quick Info:"),
              <<Run(NL, 1)>> >>)

\* local_fallback_reply(user), given the value get_context() returned to it.
LocalFallbackReply(user, ctx) ==
    CatAll(<< ReplyHead,
              IF user # <<>> THEN user ELSE DefaultQuestion,
              ReplyMiddle,
              Sample(ctx) >>)

\* ------------------------------------------------------- output sanitizing

RECURSIVE ReplaceStars(_)
\* text.replace('**', ''): left to right, non-overlapping occurrences removed.
ReplaceStars(cs) ==
    IF cs = <<>> THEN <<>>
    ELSE IF Len(cs) >= 2 /\ cs[1] = "*" /\ cs[2] = "*"
         THEN ReplaceStars(SubSeq(cs, 3, Len(cs)))
         ELSE <<cs[1]>> \o ReplaceStars(Tail(cs))

\* The test of the generator expression of llm on one character.
Allowed(c) ==
    \/ Ord[c] < 128
    \/ (\H1F600 <= Ord[c] /\ Ord[c] <= \H1F64F)
    \/ (\H1F300 <= Ord[c] /\ Ord[c] <= \H1F5FF)

\* ''.join(c for c in text if ...)
FilterChars(cs) == SelectSeq(cs, Allowed)

\* The sanitizing steps of llm, in the order of the code.
SanitizeChars(cs) == Strip(FilterChars(ReplaceStars(cs)))

Sanitize(t) == FromChars(SanitizeChars(Expand(t)))

\* ------------------------------------------------------------------ state

VARIABLES
    project,        \* whether GOOGLE_CLOUD_PROJECT is set (line 30)
    envToken,       \* os.environ.get('GOOGLE_OAUTH_ACCESS_TOKEN'), "" when absent
    now,            \* time.time(), in seconds
    ticks,          \* how often the clock has advanced
    token_cache,    \* _token_cache
    cache,          \* _cache
    bg,             \* the thread running _bg_refresh; failed: the last cycle that
                    \* wrote the content was one that raised; resps: what the
                    \* requests of the current cycle have produced; before:
                    \* _cache as the current cycle found it
    th,             \* the request threads
    san,            \* the sanitizing steps applied on their own
    feedback_store, \* _feedback_store, the oldest record first
    accepted,       \* how many submissions have been appended so far
    paired          \* the expires_at computed by the call that wrote
                    \* _token_cache['value'] last

vars == <<project, envToken, now, ticks, token_cache, cache, bg, th, san,
          feedback_store, accepted, paired>>

\* The threads that serve requests, and the one that serves them where the
\* requests come one after the other.
Workers == {"w1", "w2"}

Serial == {"w1"}

\* ----------------------------------------------------------------- bounds

MaxTicks == 1
MaxTicksCred == 3
MaxSanLen == 4
MaxFeedback == 501

\* ------------------------------------------------------------ environment

EnvTokens == {"", "envtok"}

Tokens == {"tokA", "tokB"}

\* expires_in as the metadata service may advertise it.
ExpiresInValues == {-1, 0, 60, 61, 3600}

\* What the metadata request of line 48 may produce: requests.get raises, the
\* status is not a success, the body is not JSON, the JSON is no object, or
\* it is an object, access_token absent ("") or present and expires_in an
\* integer ("int"), absent ("missing") or no number ("bad").
MetaResponses ==
    {[kind |-> k, token |-> "", exp_kind |-> "missing", expires_in |-> 0] :
        k \in {"exception", "notok", "notjson", "notobject"}}
    \cup
    {[kind |-> "json", token |-> tk, exp_kind |-> "int", expires_in |-> e] :
        tk \in Tokens \cup {""}, e \in ExpiresInValues}
    \cup
    {[kind |-> "json", token |-> tk, exp_kind |-> ek, expires_in |-> 0] :
        tk \in Tokens \cup {""}, ek \in {"missing", "bad"}}

CoreMetaResponses ==
    {r \in MetaResponses :
        \/ r.kind \in {"exception", "notok"}
        \/ r.kind = "json" /\ r.token = "tokA" /\ r.exp_kind = "int" /\ r.expires_in = 60}

\* The responses drawn where two calls interleave: the failures before the
\* body is read, two tokens of different lifetimes, a body without token.
RaceMetaResponses ==
    {r \in MetaResponses :
        \/ r.kind \in {"exception", "notok"}
        \/ r.kind = "json" /\ r.exp_kind = "int" /\
              <<r.token, r.expires_in>> \in {<<"tokA", 60>>, <<"tokB", 3600>>, <<"", 60>>}}

\* Texts the model may generate.
VertexTexts ==
    { <<>>,
      <<Run("*", 2), Run("a", 1), Run("*", 2), Run(" ", 1), Run("b", 1)>>,
      <<Run("*", 2)>>,
      <<Run(" ", 1), Run("\n", 1)>>,
      <<Run("U+00E9", 1)>>,
      <<Run("*", 1), Run("U+00E9", 1), Run("*", 1)>>,
      <<Run("a", 1), Run("U+1F600", 1)>> }

\* What the inference request of line 80 may produce: requests.post raises
\* (a timeout included), the status is not a success, the body is not JSON,
\* the path candidates[0].content.parts[0].text is missing, or it is there.
VertexResponses ==
    {[kind |-> k, text |-> <<>>] : k \in {"exception", "notok", "notjson", "nopath"}}
    \cup {[kind |-> "text", text |-> x] : x \in VertexTexts}

CoreVertexResponses ==
    {r \in VertexResponses :
        r.kind = "text" => r.text \in {<<>>, <<Run("*", 2)>>,
                                       <<Run("*", 2), Run("a", 1), Run("*", 2), Run(" ", 1), Run("b", 1)>>}}

\* The responses drawn where two requests interleave with the refresh thread:
\* one failure and one success of each outside service.
ParMetaResponses ==
    {r \in CoreMetaResponses : r.kind # "notok"}

ParVertexResponses ==
    {r \in VertexResponses :
        r.kind = "exception" \/ (r.kind = "text" /\ r.text = <<Run("*", 2)>>)}

\* Questions a route may pass to llm.
Questions ==
    { <<>>,
      Lit("Can I open a bank account without SSN?"),
      <<Run("a", 2), Run(NL, 1), Run("-", 3)>> }

CoreQuestions == {Lit("Can I open a bank account without SSN?")}

\* Post texts (get_text of one post block) and pages (the post blocks of a page).
PostAtLimit == <<Run("a", 100)>>
PostOverLimit == <<Run("a", 101)>>
PostLong == <<Run("b", 900)>>
PostLines ==
    <<Run("a", 60), Run(NL, 1), Run("-", 3), Run(NL, 1), Run(" ", 2), Run(NL, 2), Run("b", 60)>>

\* A page with more post blocks than line 134 takes, each longer than line
\* 137 keeps: one such page overflows line 139.
PostsMany == [i \in 1..(MaxPosts + 1) |-> PostLong]

Pages ==
    { <<>>, <<PostAtLimit>>, <<PostAtLimit, PostLines>>, <<PostLong, PostOverLimit>>,
      PostsMany }


\* What the request of line 126 and the parsing after it may produce.
FetchResponses(pages) ==
    {[kind |-> k, posts |-> <<>>] : k \in {"neterr", "parseerr", "notok"}}
    \cup {[kind |-> "ok", posts |-> p] : p \in pages}

CoreFetchResponses == {r \in FetchResponses({<<PostOverLimit>>}) : r.kind # "parseerr"}

\* ------------------------------------------------------------------- init

\* A request thread between two requests.
IdleThread ==
    [pc |-> "idle", stack |-> <<>>, op |-> "none", user |-> <<>>,
     now |-> 0, seen |-> [value |-> "", expires_at |-> 0],
     new_token |-> "", lifetime |-> 0,
     ctx |-> <<>>, token |-> "", text |-> <<>>, reply |-> <<>>, result |-> <<>>,
     configured |-> FALSE,
     nMeta |-> 0, nInfer |-> 0, resp |-> "none", vresp |-> "none",
     exp_kind |-> "none", expires_in |-> 0,
     gatLine |-> 0, cvLine |-> 0, llmLine |-> 0, raised |-> FALSE,
     body |-> "none", status |-> 0, total |-> 0, acc |-> 0]

InitShared ==
    /\ project \in BOOLEAN
    /\ envToken \in EnvTokens
    /\ now = 0
    /\ ticks = 0
    /\ token_cache = [value |-> "", expires_at |-> 0]
    /\ cache = [content |-> <<>>, last |-> 0]
    /\ bg = [pc |-> "fetch", i |-> 1, combined |-> <<>>, failed |-> FALSE,
             resps |-> <<>>, before |-> [content |-> <<>>, last |-> 0]]
    /\ th = [t \in Workers |-> IdleThread]
    /\ feedback_store = <<>>
    /\ accepted = 0
    /\ paired = 0

Init ==
    /\ InitShared
    /\ san = [pc |-> "off", in |-> <<>>, out |-> <<>>]

\* ------------------------------------------------------------------ clock

\* The instants the clock may advance to: the next second and the expiry of
\* the cached credential.
TickTargets ==
    {x \in {now + 1, token_cache.expires_at} : x > now}

Tick(limit) ==
    /\ ticks < limit
    /\ \E x \in TickTargets : now' = x
    /\ ticks' = ticks + 1
    /\ UNCHANGED <<project, envToken, token_cache, cache, bg, th, san, feedback_store, accepted, paired>>

\* --------------------------------------------- background refresh thread

\* _fetch_blog, one pass of the loop over urls: the request, the parsing and,
\* when an exception is raised, the handler of lines 141 to 143.
BgFetch(responses) ==
    /\ bg.pc = "fetch"
    /\ \E r \in responses :
         LET o == FetchOne(bg.combined, r)
             b == [bg EXCEPT !.resps = Append(@, r)]
         IN  IF o.raised
             THEN /\ cache' = [cache EXCEPT !.content = HandlerContent(cache.content)]
                  /\ bg' = [b EXCEPT !.pc = "sleep", !.failed = TRUE]
             ELSE /\ cache' = cache
                  /\ bg' = IF bg.i < Len(URLS)
                           THEN [b EXCEPT !.i = bg.i + 1, !.combined = o.combined]
                           ELSE IF ShouldStore(o.combined)
                                THEN [b EXCEPT !.pc = "line139", !.combined = o.combined]
                                ELSE [b EXCEPT !.pc = "sleep", !.combined = o.combined]
    /\ UNCHANGED <<project, envToken, now, ticks, token_cache, th, san, feedback_store, accepted, paired>>

\* line 139
BgStoreContent ==
    /\ bg.pc = "line139"
    /\ cache' = [cache EXCEPT !.content = StoredContent(bg.combined)]
    /\ bg' = [bg EXCEPT !.pc = "line140", !.failed = FALSE]
    /\ UNCHANGED <<project, envToken, now, ticks, token_cache, th, san, feedback_store, accepted, paired>>

\* line 140, and the return into _bg_refresh, which starts to sleep
BgStoreLast ==
    /\ bg.pc = "line140"
    /\ cache' = [cache EXCEPT !.last = now]
    /\ bg' = [bg EXCEPT !.pc = "sleep"]
    /\ UNCHANGED <<project, envToken, now, ticks, token_cache, th, san, feedback_store, accepted, paired>>

\* time.sleep(3600) returns and the next cycle starts.  The length of the
\* sleep is not related to the clock the credentials read: the thread may
\* wake at any later step, which allows every schedule the code allows.
BgWake ==
    /\ bg.pc = "sleep"
    /\ bg' = [bg EXCEPT !.pc = "fetch", !.i = 1, !.combined = <<>>, !.resps = <<>>,
                         !.before = cache]
    /\ UNCHANGED <<project, envToken, now, ticks, token_cache, cache, th, san, feedback_store, accepted, paired>>

\* -------------------------------------------------------- request threads

Entry(op) ==
    CASE op = "llm" -> "llm174"
      [] op = "call_vertex" -> "cv61"
      [] op = "get_access_token" -> "gat36"
      [] op = "get_context" -> "gc153"
      [] op = "healthz" -> "hz648"
      [] op = "feedback" -> "fb764"

\* A call: control moves to entry, to come back at label back.
Call(r, entry, back) == [r EXCEPT !.pc = entry, !.stack = <<back>> \o r.stack]

\* A return: the value lands in the caller's field and control comes back.
Ret(r, field, value) ==
    [r EXCEPT ![field] = value, !.pc = Head(r.stack), !.stack = Tail(r.stack)]

\* An exception no handler of the function catches: it leaves the request.
Raise(r) == [r EXCEPT !.pc = "done", !.stack = <<>>, !.raised = TRUE]

Unshared == <<project, envToken, now, ticks, token_cache, cache, bg, san, feedback_store, accepted, paired>>

\* A request arrives: a route calls llm with a question, /healthz is queried,
\* or one of the functions is called on its own.
Start(t, ops, questions) ==
    /\ th[t].pc \in {"idle", "done"}
    /\ \E op \in ops, q \in questions \cup {<<>>} :
         /\ op # "llm" => q = <<>>
         /\ th' = [th EXCEPT ![t] =
                      [IdleThread EXCEPT !.op = op, !.user = q,
                                         !.pc = Entry(op), !.stack = <<"done">>]]
    /\ UNCHANGED Unshared

\* ---- get_context

\* Mutant of CacheAfterRead: get_context keeps the fallback it hands out.
CacheAfterReadFilled(c) ==
    IF c.content = <<>> THEN [c EXCEPT !.content = FALLBACK] ELSE c

\* _cache after line 153 has read it: get_context has no assignment.
CacheAfterRead(c) == c

\* line 153: the first read of _cache["content"]
GetContextTest(t) ==
    /\ th[t].pc = "gc153"
    /\ th' = [th EXCEPT ![t] =
                 IF ContextIsEmpty(cache.content)
                 THEN Ret(th[t], "ctx", FALLBACK)
                 ELSE [th[t] EXCEPT !.pc = "gc155"]]
    /\ cache' = CacheAfterRead(cache)
    /\ UNCHANGED <<project, envToken, now, ticks, token_cache, bg, san, feedback_store, accepted, paired>>

\* line 155: the second read
GetContextReturn(t) ==
    /\ th[t].pc = "gc155"
    /\ th' = [th EXCEPT ![t] = Ret(th[t], "ctx", cache.content)]
    /\ UNCHANGED Unshared

\* ---- get_access_token

TokenLifetimeEnv == 3300
DefaultExpiresIn == 300
ExpiryMargin == 30
MinLifetime == 30

\* Mutant of Max: the smaller of the two.
MaxSwapped(a, b) == IF a >= b THEN b ELSE a

Max(a, b) == IF a >= b THEN a ELSE b

\* Mutants of Unexpired: the comparison reversed, and the instant of expiry
\* taken as still valid.
UnexpiredReversed(expires_at, t0) == expires_at < t0

UnexpiredInclusive(expires_at, t0) == expires_at >= t0

\* The test of line 37 on expires_at.
Unexpired(expires_at, t0) == expires_at > t0

\* Mutant of AfterMiss: the override is not looked at.
AfterMissNoOverride == "gat48"

\* Where line 37 sends a call that finds no usable cached value: line 40.
AfterMiss == IF envToken # "" THEN "gat42" ELSE "gat48"

\* Mutant of MetaOutcome: the try block ends after requests.get, so that what
\* r.json(), data.get and int raise leaves the function.
MetaOutcomeUncaught(r) ==
    LET fail(line, up) == [store |-> FALSE, line |-> line, token |-> "",
                           lifetime |-> 0, raised |-> up]
    IN  CASE r.kind = "exception" -> fail(58, FALSE)
          [] r.kind = "notok" -> fail(50, FALSE)
          [] r.kind \in {"notjson", "notobject"} -> fail(58, TRUE)
          [] r.kind = "json" /\ r.exp_kind = "bad" -> fail(58, TRUE)
          [] OTHER ->
               [store |-> TRUE, line |-> 56, token |-> r.token,
                lifetime |-> Max(MinLifetime,
                                 (IF r.exp_kind = "missing" THEN DefaultExpiresIn
                                  ELSE r.expires_in) - ExpiryMargin),
                raised |-> FALSE]

\* Lines 49 to 58 on the response r: the line that returns, whether lines 54
\* and 55 are reached (store) and with what, and whether an exception leaves
\* the function.
MetaOutcome(r) ==
    LET fail(line) == [store |-> FALSE, line |-> line, token |-> "",
                       lifetime |-> 0, raised |-> FALSE]
    IN  CASE r.kind = "exception" -> fail(58)
          [] r.kind = "notok" -> fail(50)
          [] r.kind \in {"notjson", "notobject"} -> fail(58)
          [] r.kind = "json" /\ r.exp_kind = "bad" -> fail(58)
          [] OTHER ->
               [store |-> TRUE, line |-> 56, token |-> r.token,
                lifetime |-> Max(MinLifetime,
                                 (IF r.exp_kind = "missing" THEN DefaultExpiresIn
                                  ELSE r.expires_in) - ExpiryMargin),
                raised |-> FALSE]

\* What a metadata response is, as the claims about failures name it.
Shape(r) ==
    IF r.kind # "json" THEN r.kind
    ELSE IF r.exp_kind = "bad" THEN "json_bad_expires"
         ELSE IF r.token = "" THEN "json_no_token" ELSE "json_ok"

\* line 36
GatReadClock(t) ==
    /\ th[t].pc = "gat36"
    /\ th' = [th EXCEPT ![t] = [@ EXCEPT !.now = now, !.seen = token_cache,
                                         !.pc = "gat37v"]]
    /\ UNCHANGED Unshared

\* line 37, left operand
GatTestValue(t) ==
    /\ th[t].pc = "gat37v"
    /\ th' = [th EXCEPT ![t] =
                 [@ EXCEPT !.seen.value = token_cache.value,
                           !.pc = IF token_cache.value # "" THEN "gat37e" ELSE AfterMiss]]
    /\ UNCHANGED Unshared

\* line 37, right operand
GatTestExpiry(t) ==
    /\ th[t].pc = "gat37e"
    /\ th' = [th EXCEPT ![t] =
                 [@ EXCEPT !.seen.expires_at = token_cache.expires_at,
                           !.pc = IF Unexpired(token_cache.expires_at, th[t].now)
                                  THEN "gat38" ELSE AfterMiss]]
    /\ UNCHANGED Unshared

\* line 38
GatReturnCached(t) ==
    /\ th[t].pc = "gat38"
    /\ th' = [th EXCEPT ![t] = Ret([@ EXCEPT !.gatLine = 38], "token", token_cache.value)]
    /\ UNCHANGED Unshared

\* line 42
GatStoreEnvValue(t) ==
    /\ th[t].pc = "gat42"
    /\ token_cache' = [token_cache EXCEPT !.value = envToken]
    /\ paired' = th[t].now + TokenLifetimeEnv
    /\ th' = [th EXCEPT ![t] = [@ EXCEPT !.pc = "gat43"]]
    /\ UNCHANGED <<project, envToken, now, ticks, cache, bg, san, feedback_store, accepted>>

\* lines 43 and 44
GatStoreEnvExpiry(t) ==
    /\ th[t].pc = "gat43"
    /\ token_cache' = [token_cache EXCEPT !.expires_at = th[t].now + TokenLifetimeEnv]
    /\ th' = [th EXCEPT ![t] = Ret([@ EXCEPT !.gatLine = 44], "token", envToken)]
    /\ UNCHANGED <<project, envToken, now, ticks, cache, bg, san, feedback_store, accepted, paired>>

\* lines 48 to 53, and the returns of lines 50 and 58
GatMetadata(t, responses) ==
    /\ th[t].pc = "gat48"
    /\ \E r \in responses :
         LET o == MetaOutcome(r)
             q == [th[t] EXCEPT !.nMeta = @ + 1, !.resp = Shape(r),
                                !.exp_kind = r.exp_kind, !.expires_in = r.expires_in]
         IN  th' = [th EXCEPT ![t] =
                       IF o.raised THEN Raise(q)
                       ELSE IF o.store
                            THEN [q EXCEPT !.pc = "gat54", !.new_token = o.token,
                                           !.lifetime = o.lifetime]
                            ELSE Ret([q EXCEPT !.gatLine = o.line], "token", "")]
    /\ UNCHANGED Unshared

\* line 54
GatStoreValue(t) ==
    /\ th[t].pc = "gat54"
    /\ token_cache' = [token_cache EXCEPT !.value = th[t].new_token]
    /\ paired' = th[t].now + th[t].lifetime
    /\ th' = [th EXCEPT ![t] = [@ EXCEPT !.pc = "gat55"]]
    /\ UNCHANGED <<project, envToken, now, ticks, cache, bg, san, feedback_store, accepted>>

\* lines 55 and 56
GatStoreExpiry(t) ==
    /\ th[t].pc = "gat55"
    /\ token_cache' = [token_cache EXCEPT !.expires_at = th[t].now + th[t].lifetime]
    /\ th' = [th EXCEPT ![t] = Ret([@ EXCEPT !.gatLine = 56], "token", th[t].new_token)]
    /\ UNCHANGED <<project, envToken, now, ticks, cache, bg, san, feedback_store, accepted, paired>>

\* ---- call_vertex

\* Mutant of NoProject: the test for a project is missing.
NoProjectNever == FALSE

\* The test of lines 61 and 174.
NoProject == ~project

\* Mutant of VertexOutcome: the second try block is missing, so that what
\* r.json() and the subscripts raise leaves the function.
VertexOutcomeUncaught(r) ==
    CASE r.kind = "exception" -> [line |-> 82, text |-> <<>>, raised |-> FALSE]
      [] r.kind = "notok" -> [line |-> 85, text |-> <<>>, raised |-> FALSE]
      [] r.kind \in {"notjson", "nopath"} -> [line |-> 91, text |-> <<>>, raised |-> TRUE]
      [] OTHER -> [line |-> 89, text |-> r.text, raised |-> FALSE]

\* Lines 79 to 91 on the response r: the line that returns, its value, and
\* whether an exception leaves the function.
VertexOutcome(r) ==
    CASE r.kind = "exception" -> [line |-> 82, text |-> <<>>, raised |-> FALSE]
      [] r.kind = "notok" -> [line |-> 85, text |-> <<>>, raised |-> FALSE]
      [] r.kind \in {"notjson", "nopath"} -> [line |-> 91, text |-> <<>>, raised |-> FALSE]
      [] OTHER -> [line |-> 89, text |-> r.text, raised |-> FALSE]

\* lines 61 to 64
CvEnter(t) ==
    /\ th[t].pc = "cv61"
    /\ th' = [th EXCEPT ![t] =
                 IF NoProject
                 THEN Ret([@ EXCEPT !.cvLine = 62], "text", <<>>)
                 ELSE Call(th[t], "gat36", "cv65")]
    /\ UNCHANGED Unshared

\* Mutant of CvTestToken: an empty token makes call_vertex ask once more.
CvTestTokenRetry(t) ==
    /\ th[t].pc = "cv65"
    /\ th' = [th EXCEPT ![t] =
                 IF th[t].token = ""
                 THEN IF th[t].nMeta < 2
                      THEN Call(th[t], "gat36", "cv65")
                      ELSE Ret([@ EXCEPT !.cvLine = 66], "text", <<>>)
                 ELSE [@ EXCEPT !.pc = "cv80", !.now = 0, !.seen = IdleThread.seen,
                                !.new_token = "", !.lifetime = 0,
                                !.exp_kind = "none", !.expires_in = 0]]
    /\ UNCHANGED Unshared

\* lines 65 to 77
CvTestToken(t) ==
    /\ th[t].pc = "cv65"
    /\ th' = [th EXCEPT ![t] =
                 IF th[t].token = ""
                 THEN Ret([@ EXCEPT !.cvLine = 66], "text", <<>>)
                 ELSE [@ EXCEPT !.pc = "cv80", !.now = 0, !.seen = IdleThread.seen,
                                !.new_token = "", !.lifetime = 0,
                                !.exp_kind = "none", !.expires_in = 0]]
    /\ UNCHANGED Unshared

\* lines 79 to 91
CvPost(t, responses) ==
    /\ th[t].pc = "cv80"
    /\ \E r \in responses :
         LET o == VertexOutcome(r)
             q == [th[t] EXCEPT !.nInfer = @ + 1, !.vresp = r.kind, !.cvLine = o.line]
         IN  th' = [th EXCEPT ![t] = IF o.raised THEN Raise(q) ELSE Ret(q, "text", o.text)]
    /\ UNCHANGED Unshared

\* ---- local_fallback_reply

\* lines 159 to 171, after get_context has returned
LfrReply(t) ==
    /\ th[t].pc = "lfr163"
    /\ th' = [th EXCEPT ![t] = Ret(th[t], "reply", LocalFallbackReply(th[t].user, th[t].ctx))]
    /\ UNCHANGED Unshared

\* ---- llm

\* lines 174 and 192: without a project the fallback reply is built, with one
\* the prompt is, from get_context()
LlmEnter(t) ==
    /\ th[t].pc = "llm174"
    /\ th' = [th EXCEPT ![t] =
                 IF NoProject
                 THEN Call(Call(th[t], "gc153", "llm175"), "gc153", "lfr163")
                 ELSE Call(th[t], "gc153", "llm194")]
    /\ UNCHANGED Unshared

\* line 194
LlmCallVertex(t) ==
    /\ th[t].pc = "llm194"
    /\ th' = [th EXCEPT ![t] = Call([@ EXCEPT !.ctx = <<>>], "cv61", "llm195")]
    /\ UNCHANGED Unshared

\* lines 195 to 204
LlmTestText(t) ==
    /\ th[t].pc = "llm195"
    /\ th' = [th EXCEPT ![t] =
                 IF th[t].text = <<>>
                 THEN Call(Call(th[t], "gc153", "llm196"), "gc153", "lfr163")
                 ELSE Ret([@ EXCEPT !.llmLine = 204], "result", Sanitize(th[t].text))]
    /\ UNCHANGED Unshared

\* the returns of lines 175 and 196
LlmReturnReply(t) ==
    /\ th[t].pc \in {"llm175", "llm196"}
    /\ th' = [th EXCEPT ![t] =
                 Ret([@ EXCEPT !.llmLine = IF th[t].pc = "llm175" THEN 175 ELSE 196,
                               !.reply = <<>>],
                     "result", th[t].reply)]
    /\ UNCHANGED Unshared

\* ---- healthz

\* line 648: GOOGLE_CLOUD_PROJECT and get_access_token()
HealthzEnter(t) ==
    /\ th[t].pc = "hz648"
    /\ th' = [th EXCEPT ![t] =
                 IF NoProject THEN Ret(th[t], "configured", FALSE)
                 ELSE Call(th[t], "gat36", "hz648b")]
    /\ UNCHANGED Unshared

\* Mutant of Bool: the report looks at the project alone.
BoolAlways(token) == TRUE

\* bool(...) of line 648 on the token get_access_token returned.
Bool(token) == token # ""

\* line 648: bool(...)
HealthzReturn(t) ==
    /\ th[t].pc = "hz648b"
    /\ th' = [th EXCEPT ![t] = Ret(th[t], "configured", Bool(th[t].token))]
    /\ UNCHANGED Unshared

\* ---- do_feedback

StoreCapacity == 500
MaxFieldLength == 2000

\* Bodies posted to /feedback: no JSON object; an object whose message is
\* missing or blank, is a number, or is a text; the contact a text or a
\* number; longest is the length of the longest text in the object.
FeedbackBodies ==
    { [kind |-> "nojson", message |-> "absent", contact |-> "absent", longest |-> 0],
      [kind |-> "dict", message |-> "blank", contact |-> "text", longest |-> 3],
      [kind |-> "dict", message |-> "text", contact |-> "text", longest |-> 2000],
      [kind |-> "dict", message |-> "text", contact |-> "absent", longest |-> 2001],
      [kind |-> "dict", message |-> "number", contact |-> "text", longest |-> 3],
      [kind |-> "dict", message |-> "text", contact |-> "number", longest |-> 3],
      [kind |-> "dict", message |-> "text", contact |-> "absent", longest |-> 3] }

\* require_json(['message']) on a body: whether it raises BadRequestError.
RequireJsonRaises(body) ==
    \/ body.kind # "dict"
    \/ body.message \in {"absent", "blank"}
    \/ body.longest > MaxFieldLength

\* Lines 766 and 767: .strip() on what is no text raises.
RecordRaises(body) == body.message = "number" \/ body.contact = "number"

\* Mutant of DequeAppend: a list without maxlen.
DequeAppendUnbounded(q, x) == Append(q, x)

\* deque(maxlen=500).append(x): a full deque drops its oldest item.
DequeAppend(q, x) ==
    IF Len(q) >= StoreCapacity THEN Append(Tail(q), x) ELSE Append(q, x)

\* line 764
FbRequire(t) ==
    /\ th[t].pc = "fb764"
    /\ \E body \in FeedbackBodies :
         th' = [th EXCEPT ![t] =
                   IF RequireJsonRaises(body)
                   THEN [@ EXCEPT !.body = body.kind, !.status = 400,
                                  !.pc = "done", !.stack = <<>>]
                   ELSE IF RecordRaises(body)
                        THEN [Raise(@) EXCEPT !.body = "nontext", !.status = 500]
                        ELSE [@ EXCEPT !.body = "accepted", !.pc = "fb765"]]
    /\ UNCHANGED Unshared

\* lines 765 to 769: the record is appended; n, the number of the submission,
\* stands for its message and contact.
FbAppend(t) ==
    /\ th[t].pc = "fb765"
    /\ accepted < MaxFeedback
    /\ feedback_store' = DequeAppend(feedback_store, [n |-> accepted + 1, ts |-> now])
    /\ accepted' = accepted + 1
    /\ th' = [th EXCEPT ![t] = [@ EXCEPT !.pc = "fb770"]]
    /\ UNCHANGED <<project, envToken, now, ticks, token_cache, cache, bg, san, paired>>

\* line 770; acc: how many submissions had been appended when len was read
FbReturn(t) ==
    /\ th[t].pc = "fb770"
    /\ th' = [th EXCEPT ![t] =
                 Ret([@ EXCEPT !.status = 200, !.acc = accepted],
                     "total", Len(feedback_store))]
    /\ UNCHANGED Unshared

\* ------------------------------------------------------------ the system

\* The whole process: the requests that answer (llm, call_vertex) and
\* /healthz, the refresh thread and the clock.  The responses of the three
\* outside services are drawn from the Core sets.
Request ==
    \E t \in Serial :
        \/ Start(t, {"llm", "call_vertex", "healthz"}, CoreQuestions)
        \/ GetContextTest(t) \/ GetContextReturn(t)
        \/ GatReadClock(t) \/ GatTestValue(t) \/ GatTestExpiry(t) \/ GatReturnCached(t)
        \/ GatStoreEnvValue(t) \/ GatStoreEnvExpiry(t)
        \/ GatMetadata(t, CoreMetaResponses) \/ GatStoreValue(t) \/ GatStoreExpiry(t)
        \/ CvEnter(t) \/ CvTestToken(t) \/ CvPost(t, CoreVertexResponses)
        \/ LfrReply(t)
        \/ LlmEnter(t) \/ LlmCallVertex(t) \/ LlmTestText(t) \/ LlmReturnReply(t)
        \/ HealthzEnter(t) \/ HealthzReturn(t)

Refresh == BgFetch(CoreFetchResponses) \/ BgStoreContent \/ BgStoreLast \/ BgWake

Next == Request \/ Refresh \/ Tick(MaxTicks)

Spec == Init /\ [][Next]_vars

\* The credential provider on its own: get_access_token called directly and
\* through /healthz, with every metadata response, and the clock.  No action
\* left out reads or writes _token_cache or the clock.
RequestCred ==
    \E t \in Serial :
        \/ Start(t, {"get_access_token", "healthz"}, {})
        \/ GatReadClock(t) \/ GatTestValue(t) \/ GatTestExpiry(t) \/ GatReturnCached(t)
        \/ GatStoreEnvValue(t) \/ GatStoreEnvExpiry(t)
        \/ GatMetadata(t, MetaResponses) \/ GatStoreValue(t) \/ GatStoreExpiry(t)
        \/ HealthzEnter(t) \/ HealthzReturn(t)

NextCred == RequestCred \/ Tick(MaxTicksCred)

SpecCred == Init /\ [][NextCred]_vars

\* The credential provider under concurrent requests: every thread calls
\* get_access_token, and the steps of the calls interleave.
RequestCredPar ==
    \E t \in Workers :
        \/ Start(t, {"get_access_token"}, {})
        \/ GatReadClock(t) \/ GatTestValue(t) \/ GatTestExpiry(t) \/ GatReturnCached(t)
        \/ GatStoreEnvValue(t) \/ GatStoreEnvExpiry(t)
        \/ GatMetadata(t, RaceMetaResponses) \/ GatStoreValue(t) \/ GatStoreExpiry(t)

NextCredPar == RequestCredPar \/ Tick(MaxTicks)

InitCredPar == Init /\ project = TRUE

SpecCredPar == InitCredPar /\ [][NextCredPar]_vars

\* Two request threads and the refresh thread: every request operation, the
\* steps of the three threads interleaved.  The clock stands still.
RequestPar ==
    \E t \in Workers :
        \/ Start(t, {"llm", "healthz"}, {})
        \/ GetContextTest(t) \/ GetContextReturn(t)
        \/ GatReadClock(t) \/ GatTestValue(t) \/ GatTestExpiry(t) \/ GatReturnCached(t)
        \/ GatStoreEnvValue(t) \/ GatStoreEnvExpiry(t)
        \/ GatMetadata(t, ParMetaResponses) \/ GatStoreValue(t) \/ GatStoreExpiry(t)
        \/ CvEnter(t) \/ CvTestToken(t) \/ CvPost(t, ParVertexResponses)
        \/ LfrReply(t)
        \/ LlmEnter(t) \/ LlmCallVertex(t) \/ LlmTestText(t) \/ LlmReturnReply(t)
        \/ HealthzEnter(t) \/ HealthzReturn(t)

NextPar == RequestPar \/ Refresh

SpecPar == Init /\ [][NextPar]_vars

\* The feedback store on its own: the submissions to /feedback, one after
\* the other.
RequestFeedback ==
    \E t \in Serial :
        \/ Start(t, {"feedback"}, {})
        \/ FbRequire(t) \/ FbAppend(t) \/ FbReturn(t)

NextFeedback == RequestFeedback

InitFeedback == Init /\ project = TRUE /\ envToken = ""

SpecFeedback == InitFeedback /\ [][NextFeedback]_vars

\* The reference content cache on its own: the refresh thread with every page,
\* and the requests that read the cache when no project is configured.  No
\* action left out reads or writes _cache.
InitRef == Init /\ ~project /\ envToken = ""

RequestRef ==
    \E t \in Serial :
        \/ Start(t, {"get_context", "llm"}, Questions)
        \/ GetContextTest(t) \/ GetContextReturn(t)
        \/ LfrReply(t)
        \/ LlmEnter(t) \/ LlmReturnReply(t)

RefreshRef == BgFetch(FetchResponses(Pages)) \/ BgStoreContent \/ BgStoreLast \/ BgWake

NextRef == RequestRef \/ RefreshRef \/ Tick(MaxTicks)

SpecRef == InitRef /\ [][NextRef]_vars

\* ------------------------------------------- the sanitizing steps on their own

SanAlphabet == {"*", "a", " ", "\n", "U+00E9", "U+1F600"}

SanInputs == UNION {[1..k -> SanAlphabet] : k \in 0..MaxSanLen}

InitSan ==
    /\ InitShared
    /\ \E x \in SanInputs : san = [pc |-> "start", in |-> x, out |-> <<>>]

SanitizeOnce ==
    /\ san.pc = "start"
    /\ san' = [san EXCEPT !.pc = "once", !.out = SanitizeChars(san.in)]
    /\ UNCHANGED <<project, envToken, now, ticks, token_cache, cache, bg, th, feedback_store, accepted, paired>>

SanitizeAgain ==
    /\ san.pc = "once"
    /\ san' = [san EXCEPT !.pc = "twice", !.out = SanitizeChars(san.out)]
    /\ UNCHANGED <<project, envToken, now, ticks, token_cache, cache, bg, th, feedback_store, accepted, paired>>

NextSan == SanitizeOnce \/ SanitizeAgain

SpecSan == InitSan /\ [][NextSan]_vars

\* ------------------------------------------------------------- claims

\* The texts as plain sequences: p is a prefix, a suffix, a part of t.
StartsWith(t, p) ==
    LET a == Expand(t)
        b == Expand(p)
    IN  Len(b) <= Len(a) /\ SubSeq(a, 1, Len(b)) = b

EndsWith(t, p) ==
    LET a == Expand(t)
        b == Expand(p)
    IN  Len(b) <= Len(a) /\ SubSeq(a, Len(a) - Len(b) + 1, Len(a)) = b

Contains(t, p) ==
    LET a == Expand(t)
        b == Expand(p)
    IN  \E i \in 0..(Len(a) - Len(b)) : SubSeq(a, i + 1, i + Len(b)) = b

\* get_context has returned to thread t and th[t].ctx is what it returned.
GotContext(t) ==
    \/ th[t].pc \in {"lfr163", "llm194"}
    \/ th[t].pc = "done" /\ th[t].op \in {"get_context", "llm"} /\ th[t].ctx # IdleThread.ctx
    \/ th[t].pc = "done" /\ th[t].op = "get_context"

\* C1: whatever the refresh thread has done and however its writes fall
\* between the two reads of get_context, the value get_context returns is not
\* the empty string, and it is FALLBACK as long as the cache content is empty.
C1_ContextNeverEmpty ==
    \A t \in Workers :
        GotContext(t) =>
            /\ th[t].ctx # <<>>
            /\ cache.content = <<>> => th[t].ctx = FALLBACK

\* C1, witness: get_context has returned FALLBACK from a cache never populated.
C1_Witness ==
    \E t \in Workers :
        /\ th[t].pc = "done" /\ th[t].op = "get_context"
        /\ th[t].ctx = FALLBACK
        /\ cache.content = <<>>

\* thread t returns from get_context in this step
GetContextReturns(t) ==
    /\ th[t].pc \in {"gc153", "gc155"}
    /\ th'[t].pc \notin {"gc153", "gc155"}

\* C2: once a refresh cycle has raised, the cache content is FALLBACK until a
\* later cycle stores fetched content, and every get_context that returns in
\* the meantime returns exactly FALLBACK.
C2_RaisedCycleGivesFallback ==
    [][ /\ bg'.failed => cache'.content = FALLBACK
        /\ \A t \in Workers :
             (bg.failed /\ GetContextReturns(t)) => th'[t].ctx = FALLBACK ]_vars

\* C2, witness: a cycle raised on the second source after the first one had
\* yielded content, a cycle before it had stored fetched content, and
\* get_context has returned FALLBACK since.
C2_Witness ==
    /\ bg.failed /\ bg.pc = "sleep" /\ bg.i = 2 /\ bg.combined # <<>>
    /\ cache.last > 0
    /\ \E t \in Workers :
         th[t].pc = "done" /\ th[t].op = "get_context" /\ th[t].ctx = FALLBACK

\* C3 as stated: after the sanitizing steps every character of the output is
\* ASCII or a whitelisted emoji, and no two neighbours are both '*'.
C3_SanitizedIsCleanAsClaimed ==
    san.pc \in {"once", "twice"} =>
        /\ \A i \in 1..Len(san.out) : Allowed(san.out[i])
        /\ \A i \in 1..(Len(san.out) - 1) : ~(san.out[i] = "*" /\ san.out[i + 1] = "*")

\* C4 as stated: sanitizing the sanitized text gives the sanitized text.
C4_SanitizeIdempotentAsClaimed ==
    san.pc = "twice" => san.out = SanitizeChars(san.in)

\* get_access_token has returned to thread t from the line th[t].gatLine;
\* th[t].now is the clock that call read, and th[t].seen the cache as it was
\* then, each field replaced by what line 37 read of it.
GatReturned(t) == th[t].gatLine # 0 /\ th[t].pc \in {"done", "hz648b"}

\* C5: a call that starts while the cache holds a value whose expires_at is
\* still ahead of the clock issues no metadata request and returns that value.
C5_CachedTokenReused ==
    \A t \in Workers :
        (GatReturned(t) /\ th[t].seen.value # "" /\ th[t].seen.expires_at > th[t].now) =>
            /\ th[t].nMeta = 0
            /\ th[t].token = th[t].seen.value
            /\ token_cache = th[t].seen

\* C5, witness: a token obtained from the metadata service has been returned
\* from the cache by a call made later, before its expiry.
C5_Witness ==
    \E t \in Workers :
        /\ GatReturned(t) /\ th[t].gatLine = 38
        /\ th[t].seen.value \in Tokens
        /\ th[t].now > 0
        /\ th[t].token = th[t].seen.value

\* C6: under any interleaving of two threads' calls, a call returns the cached
\* value without acquiring only if the expires_at it read is strictly later
\* than the time it read; a call that finds now >= expires_at adopts the
\* override or issues the metadata request.
C6_ReuseOnlyBeforeExpiry ==
    \A t \in Workers :
        GatReturned(t) =>
            /\ th[t].gatLine = 38 =>
                 /\ th[t].seen.expires_at > th[t].now
                 /\ th[t].seen.value # ""
                 /\ th[t].nMeta = 0
            /\ th[t].seen.expires_at <= th[t].now =>
                 \/ th[t].gatLine = 44 /\ th[t].token = envToken
                 \/ th[t].nMeta = 1 /\ th[t].gatLine \in {50, 56, 58}

\* C6, witness: a call made at the very instant of expiry of a cached token
\* has gone to the metadata service.
C6_Witness ==
    \E t \in Workers :
        /\ GatReturned(t)
        /\ th[t].seen.value \in Tokens
        /\ th[t].seen.expires_at = th[t].now
        /\ th[t].nMeta = 1

\* The metadata responses that are failures.
FailureShapes ==
    {"exception", "notok", "notjson", "notobject", "json_bad_expires", "json_no_token"}

C8_NoProjectNoNetwork ==
    ~project =>
        /\ token_cache = [value |-> "", expires_at |-> 0]
        /\ \A t \in Workers :
             /\ th[t].nMeta = 0 /\ th[t].nInfer = 0 /\ ~th[t].raised
             /\ (th[t].pc = "done" /\ th[t].op = "call_vertex") =>
                   th[t].text = <<>> /\ th[t].cvLine = 62
             /\ (th[t].pc = "done" /\ th[t].op = "llm") =>
                   /\ th[t].llmLine = 175
                   /\ StartsWith(th[t].result, ReplyHead)
                   /\ th[t].result = LocalFallbackReply(th[t].user, th[t].ctx)

\* C8, witness: without a project llm has answered after the refresh thread
\* had stored fetched content and the clock had advanced.
C8_Witness ==
    /\ ~project
    /\ cache.content \notin {<<>>, FALLBACK}
    /\ ticks > 0
    /\ \E t \in Workers :
         th[t].pc = "done" /\ th[t].op = "llm" /\ th[t].ctx = cache.content

\* The first eight lines of FALLBACK, joined by line breaks.
FallbackExcerpt ==
    Join(<<Run(NL, 1)>>, [i \in 1..8 |-> Lit(FallbackLines[i])])

\* llm has answered thread t's non-empty question without a project, from a
\* context that is the fallback corpus.
AnsweredFromFallback(t) ==
    /\ ~project
    /\ th[t].pc = "done" /\ th[t].op = "llm"
    /\ th[t].user # <<>>
    /\ th[t].ctx = FALLBACK

\* C9 as stated: the answer begins with "Vertex AI configuration is missing",
\* contains the question and ends with an excerpt of at most 8 lines.
C9_ReplyBeginsAsClaimed ==
    \A t \in Workers :
        AnsweredFromFallback(t) =>
            /\ StartsWith(th[t].result, Lit("Vertex AI configuration is missing"))
            /\ Contains(th[t].result, th[t].user)
            /\ EndsWith(th[t].result, FallbackExcerpt)

\* C9 amended: the answer begins with the warning sign, U+FE0F and a space,
\* followed at once by "Vertex AI configuration is missing"; it contains the
\* question and ends, after "Quick Info:" and a line break, with the first 8
\* lines of the fallback corpus.
C9_ReplyShape ==
    \A t \in Workers :
        AnsweredFromFallback(t) =>
            /\ StartsWith(th[t].result,
                          <<Run("U+26A0", 1), Run("U+FE0F", 1), Run(" ", 1),
                            Run("Vertex AI configuration is missing", 1)>>)
            /\ Contains(th[t].result, th[t].user)
            /\ EndsWith(th[t].result,
                        Cat(Lit("Quick Info:"), Cat(<<Run(NL, 1)>>, FallbackExcerpt)))
            /\ Len(SplitLines(FallbackExcerpt)) = 8

\* C9, witness: the scenario's question has been answered while the cache
\* itself held the fallback corpus.
C9_Witness ==
    \E t \in Workers :
        /\ AnsweredFromFallback(t)
        /\ th[t].user = Lit("Can I open a bank account without SSN?")
        /\ cache.content = FALLBACK

\* The lines call_vertex returns from when the inference failed: no token,
\* requests.post raised, the status was no success, the body had no text.
FailureLines == {66, 82, 85, 91}

\* C10: whatever makes the inference fail, call_vertex returns the empty
\* string, llm returns from line 196 the fallback reply to the question, and
\* no exception leaves the request.
C10_InferenceFailureGivesFallback ==
    \A t \in Workers :
        /\ ~th[t].raised
        /\ (th[t].cvLine \in FailureLines /\ th[t].pc \in {"done", "llm195"}) =>
              th[t].text = <<>>
        /\ (th[t].cvLine \in FailureLines /\ th[t].pc = "done" /\ th[t].op = "llm") =>
              /\ th[t].llmLine = 196
              /\ StartsWith(th[t].result, ReplyHead)
              /\ th[t].result = LocalFallbackReply(th[t].user, th[t].ctx)

\* C10, witness: the inference call timed out and llm has answered with the
\* fallback reply.
C10_Witness ==
    \E t \in Workers :
        /\ th[t].pc = "done" /\ th[t].op = "llm"
        /\ th[t].vresp = "exception" /\ th[t].cvLine = 82
        /\ th[t].llmLine = 196
        /\ th[t].result # <<>>

\* Thread t, serving /healthz, takes this step.
HealthzStep(t) ==
    /\ th[t].op = "healthz" /\ th[t].pc \notin {"idle", "done"}
    /\ th'[t] # th[t]

\* /healthz has answered thread t.
HealthzDone(t) == th[t].op = "healthz" /\ th[t].pc = "done"

\* C11 as stated: no step of /healthz changes the credential cache or the
\* reference cache, and it reports vertex_configured = (project present and a
\* token obtained).
C11_HealthzReadOnlyAsClaimed ==
    [][ \A t \in Workers :
          /\ HealthzStep(t) => token_cache' = token_cache /\ cache' = cache
          /\ HealthzDone(t)' =>
                th'[t].configured = (project /\ th'[t].token # "") ]_vars

\* C11 amended: no step of /healthz changes the reference cache; without a
\* project, or when line 37 finds an unexpired cached value, none changes the
\* credential cache either; otherwise /healthz runs the acquisition of
\* get_access_token, whose lines 42, 43, 54 and 55 write the credential
\* cache.  It reports vertex_configured = (project present and
\* get_access_token() returned a non-empty token).
C11_HealthzFrame ==
    [][ \A t \in Workers :
          /\ HealthzStep(t) =>
                /\ cache' = cache
                /\ token_cache' # token_cache =>
                      /\ project
                      /\ th[t].pc \in {"gat42", "gat43", "gat54", "gat55"}
                      /\ ~(th[t].seen.value # "" /\ th[t].seen.expires_at > th[t].now)
          /\ HealthzDone(t)' =>
                /\ th'[t].configured = (project /\ th'[t].token # "")
                /\ ~project => th'[t].nMeta = 0 /\ th'[t].gatLine = 0 ]_vars

\* C11, witness: /healthz has itself obtained a token from the metadata
\* service, stored it and reported vertex_configured = true, after a refresh
\* had stored fetched content.
C11_Witness ==
    \E t \in Workers :
        /\ HealthzDone(t) /\ th[t].configured
        /\ th[t].nMeta = 1 /\ th[t].gatLine = 56
        /\ token_cache.value = th[t].token /\ token_cache.value \in Tokens
        /\ cache.content \notin {<<>>, FALLBACK}

RECURSIVE Drop(_, _)
\* text[k:]
Drop(s, k) ==
    IF s = <<>> \/ k <= 0 THEN s
    ELSE IF Head(s).n > k THEN <<Run(Head(s).c, Head(s).n - k)>> \o Tail(s)
         ELSE Drop(Tail(s), k - Head(s).n)

\* s is the head of an excerpt block that a truncation has cut: at most 800
\* characters of text, or 800 of text and a proper part of the separator.
CutBlock(s) ==
    \/ TLen(s) <= MaxPostLen
    \/ /\ TLen(s) < MaxPostLen + TLen(Separator)
       /\ Take(Separator, TLen(s) - MaxPostLen) = Drop(s, MaxPostLen)

\* The separator lies at the runs i, i + 1, i + 2 of s: the last line break
\* of run i, three dashes, the first line break of run i + 2.
SeparatorAt(s, i) ==
    /\ s[i].c = NL
    /\ s[i + 1] = Run("-", 3)
    /\ s[i + 2].c = NL

RECURSIVE BlockSeq(_, _)
\* s is a sequence of excerpt blocks, each a text of at most 800 characters
\* followed by the separator; when cut holds the last one may be cut short.
BlockSeq(s, cut) ==
    \/ s = <<>>
    \/ cut /\ CutBlock(s)
    \/ \E i \in 1..(Len(s) - 2) :
          /\ SeparatorAt(s, i)
          /\ TLen(SubSeq(s, 1, i)) - 1 <= MaxPostLen
          /\ BlockSeq((IF s[i + 2].n > 1 THEN <<Run(NL, s[i + 2].n - 1)>> ELSE <<>>)
                         \o SubSeq(s, i + 3, Len(s)),
                      cut)

\* C12: the cache content is empty, or FALLBACK, or at most 6000 characters
\* made of excerpt blocks of at most 800 characters each followed by the
\* separator, the last block cut short only where the content has the full
\* 6000 characters.
C12_ContentShape ==
    \/ cache.content = <<>>
    \/ cache.content = FALLBACK
    \/ /\ TLen(cache.content) <= MaxContentLen
       /\ BlockSeq(cache.content, TLen(cache.content) = MaxContentLen)

\* C12, witness: the stored content has 6000 characters and its last block is
\* cut short, and a request has read it.
C12_Witness ==
    /\ TLen(cache.content) = MaxContentLen
    /\ ~BlockSeq(cache.content, FALSE)
    /\ \E t \in Workers : th[t].pc = "done" /\ th[t].ctx = cache.content

\* C13: a step changes _cache (content or last) only if it is a step of the
\* refresh thread, at the handler or at line 139 or 140, and no step of a
\* request thread, whatever it serves, changes it.
C13_SingleWriter ==
    [][ /\ cache' # cache =>
              /\ th' = th
              /\ bg' # bg
              /\ bg.pc \in {"fetch", "line139", "line140"}
        /\ \A t \in Workers : th'[t] # th[t] => cache' = cache ]_vars

\* C13, witness: both request threads are inside a request, one in
\* get_context between its two reads and one in call_vertex, while the
\* refresh thread is between line 139 and line 140.
C13_Witness ==
    /\ bg.pc = "line140"
    /\ \E t, u \in Workers :
         /\ th[t].pc = "gc155"
         /\ th[u].pc = "cv80"

\* Where a request of llm is once call_vertex has returned: at the test of
\* line 195, in local_fallback_reply and its get_context, or at its end.
AfterCallVertex == {"llm195", "gc153", "gc155", "lfr163", "llm196", "done"}

\* C14: a request of llm issues at most one metadata request and at most one
\* inference request; when no token was obtained no inference request is
\* issued, and once call_vertex has failed the request only builds the
\* fallback reply and ends with it.
C14_NoRetries ==
    \A t \in Workers :
        th[t].op = "llm" =>
            /\ th[t].nMeta <= 1 /\ th[t].nInfer <= 1
            /\ th[t].cvLine = 66 => th[t].nInfer = 0
            /\ th[t].cvLine \in FailureLines =>
                  /\ th[t].pc \in AfterCallVertex
                  /\ th[t].pc = "done" =>
                        /\ th[t].llmLine = 196
                        /\ th[t].result = LocalFallbackReply(th[t].user, th[t].ctx)

\* C14, witness: a request has ended with the fallback reply after one
\* successful metadata request and one inference request, which failed.
C14_Witness ==
    \E t \in Workers :
        /\ th[t].op = "llm" /\ th[t].pc = "done" /\ th[t].llmLine = 196
        /\ th[t].nMeta = 1 /\ th[t].resp = "json_ok"
        /\ th[t].nInfer = 1 /\ th[t].vresp = "notok"

\* The call of thread t found a cached value that had not expired.
FoundUnexpired(t) ==
    th[t].seen.value # "" /\ th[t].seen.expires_at > th[t].now

\* C15: while an override token is in the environment no metadata request is
\* ever issued and every call returns the override; a call that finds no
\* unexpired cached value returns from line 44 and leaves the cache at
\* (override, now + 3300), a call that finds one returns it from line 38 and
\* leaves the cache as it was.
C15_OverrideToken ==
    envToken # "" =>
        \A t \in Workers :
            /\ th[t].nMeta = 0
            /\ GatReturned(t) =>
                  /\ th[t].token = envToken
                  /\ ~FoundUnexpired(t) =>
                        /\ th[t].gatLine = 44
                        /\ token_cache = [value |-> envToken,
                                           expires_at |-> th[t].now + 3300]
                  /\ FoundUnexpired(t) =>
                        /\ th[t].gatLine = 38
                        /\ token_cache = th[t].seen

\* C15, witness: a call made at the instant the cached override expired has
\* stored it again with a new expiry.
C15_Witness ==
    \E t \in Workers :
        /\ GatReturned(t) /\ th[t].gatLine = 44
        /\ th[t].seen = [value |-> envToken, expires_at |-> th[t].now]
        /\ th[t].now = 3300
        /\ token_cache.expires_at = 6600

\* C16: after a metadata response with a token and an integer expires_in = e
\* the cache holds that token with expires_at = t + max(30, e - 30), t being
\* the time the call read at line 36; the cached lifetime is never below 30.
C16_ExpiryFormula ==
    \A t \in Workers :
        (GatReturned(t) /\ th[t].resp = "json_ok" /\ th[t].exp_kind = "int") =>
            /\ th[t].gatLine = 56
            /\ token_cache.value = th[t].token
            /\ token_cache.expires_at =
                  th[t].now + (IF th[t].expires_in - 30 > 30
                               THEN th[t].expires_in - 30 ELSE 30)
            /\ token_cache.expires_at - th[t].now >= 30

\* C16, witness: a negative expires_in, advertised to a call made after the
\* clock had advanced, has given a lifetime of 30.
C16_Witness ==
    \E t \in Workers :
        /\ GatReturned(t) /\ th[t].resp = "json_ok" /\ th[t].exp_kind = "int"
        /\ th[t].expires_in < 0
        /\ th[t].now > 0
        /\ token_cache.expires_at = th[t].now + 30

\* What one source alone contributes to combined.
SourceContent(r) == AddPosts(<<>>, FirstN(r.posts, MaxPosts))

\* In the current cycle source i answered with a status that is no success
\* and the other source, j, answered with a page.
OneSourceSkipped(i, j) ==
    /\ Len(bg.resps) = 2
    /\ bg.resps[i].kind = "notok"
    /\ bg.resps[j].kind = "ok"

\* C17: a status that is no success never ends the cycle: the loop goes on to
\* the next source; and when one source was skipped so and the other yielded
\* content, the cycle stores that content, cut to 6000 characters, not
\* FALLBACK.
C17_SkipsOnlyFailedSource ==
    /\ (bg.resps # <<>> /\ bg.resps[1].kind = "notok") =>
          \/ bg.pc = "fetch" /\ bg.i = 2 /\ Len(bg.resps) = 1
          \/ Len(bg.resps) = 2
    /\ \A i, j \in {1, 2} :
          (i # j /\ OneSourceSkipped(i, j) /\ SourceContent(bg.resps[j]) # <<>>
             /\ bg.pc \in {"line140", "sleep"}) =>
                /\ cache.content = Take(SourceContent(bg.resps[j]), 6000)
                /\ cache.content # FALLBACK
                /\ ~bg.failed

\* C17, witness: the first source was skipped, the second yielded more than
\* 6000 characters, the cycle has stored the first 6000, and a request before
\* it had been given FALLBACK.
C17_Witness ==
    /\ OneSourceSkipped(1, 2)
    /\ bg.pc = "sleep"
    /\ TLen(SourceContent(bg.resps[2])) > 6000
    /\ TLen(cache.content) = 6000
    /\ \E t \in Workers : th[t].pc = "done" /\ th[t].ctx = FALLBACK

Min(a, b) == IF a <= b THEN a ELSE b

\* C18: the store holds min(accepted, 500) records, the latest accepted
\* submissions in the order they were appended, so that a submission to a
\* full store has dropped the oldest; and the total_feedback a request
\* reports is min(accepted, 500) for the submissions accepted when it read
\* the length.
C18_FeedbackStoreBounded ==
    /\ Len(feedback_store) = Min(accepted, 500)
    /\ \A i \in 1..Len(feedback_store) :
          feedback_store[i].n = accepted - Len(feedback_store) + i
    /\ \A t \in Workers :
          (th[t].op = "feedback" /\ th[t].pc = "done" /\ th[t].status = 200) =>
              /\ th[t].total = Min(th[t].acc, 500)
              /\ th[t].acc >= 1

\* C18, witness: the 501st submission has been accepted: the store is full,
\* its oldest record is the second submission, and the request reports 500.
C18_Witness ==
    /\ accepted = 501
    /\ Len(feedback_store) = 500
    /\ feedback_store[1].n = 2
    /\ \E t \in Workers :
         th[t].op = "feedback" /\ th[t].pc = "done" /\ th[t].status = 200
           /\ th[t].acc = 501 /\ th[t].total = 500

\* C19 as stated: whenever the cached value is not empty and the clock is
\* before expires_at, that expires_at is the one computed by the call that
\* wrote the value.
C19_ValueAndExpiryPairedAsClaimed ==
    (token_cache.value # "" /\ now < token_cache.expires_at) =>
        token_cache.expires_at = paired

\* C20 as stated: llm never returns the empty string: a non-empty text of the
\* inference call gives a non-empty result, and without a text the result is
\* the fallback reply.
C20_AnswerNeverEmptyAsClaimed ==
    \A t \in Workers :
        (th[t].op = "llm" /\ th[t].pc = "done") =>
            /\ th[t].result # <<>>
            /\ th[t].llmLine \in {175, 196} =>
                  th[t].result = LocalFallbackReply(th[t].user, th[t].ctx)

\* The current cycle has ended without an exception: every source answered
\* with a page or with a status that is no success.
CycleCompleted ==
    /\ bg.pc = "sleep"
    /\ Len(bg.resps) = 2
    /\ \A i \in 1..2 : bg.resps[i].kind \in {"ok", "notok"}

\* What the sources of the current cycle have yielded, put together.
Gathered ==
    AddPosts(SourceContent(bg.resps[1]), FirstN(bg.resps[2].posts, MaxPosts))

\* C21: a cycle that has ended without an exception and gathered nothing has
\* left the content and the refresh time as it found them; and in every state
\* of a cycle the refresh time differs from the one the cycle found only if
\* the cycle has gathered something and stored it as the content.
C21_EmptyCycleKeepsCache ==
    /\ (CycleCompleted /\ Gathered = <<>>) => cache = bg.before
    /\ cache.last # bg.before.last =>
          /\ CycleCompleted
          /\ Gathered # <<>>
          /\ cache.content = Take(Gathered, 6000)

\* C21, witness: a cycle in which one source answered with a status that is
\* no success and the other with a page of blocks too short has ended, at a
\* later time than the cycle that stored the content still cached.
C21_Witness ==
    /\ CycleCompleted /\ Gathered = <<>>
    /\ bg.resps[1].kind = "notok"
    /\ bg.resps[2].kind = "ok" /\ bg.resps[2].posts # <<>>
    /\ cache.content \notin {<<>>, FALLBACK}
    /\ now > cache.last

====
